---- MODULE Spec2Model ----
(***************************************************************************)
(* A model of pipeline.py, the example Seesaw/Wpull pipeline.              *)
(*                                                                         *)
(* The tasks defined in pipeline.py (CheckIP, PrepareDirectories,          *)
(* MoveFiles, WgetArgs) and the pipeline's list of tasks are translated    *)
(* from the source.  The classes pipeline.py imports from the seesaw       *)
(* library (Pipeline, SimpleTask, SetItemKey, WgetDownload,                *)
(* ExternalProcess, PrepareStatsForTracker) are not part of the source     *)
(* tree; their behaviour is taken from the design document (sections 2,    *)
(* 4.4, 4.6, 5 and 7) and is marked as such where it is defined.           *)
(*                                                                         *)
(* Strings are sequences of tokens: a token is one of the characters the   *)
(* code treats specially (":", "/", "-") or a run of other characters.     *)
(* Paths and file names are built by concatenation, as the code does.      *)
(***************************************************************************)
EXTENDS Integers, Sequences, FiniteSets, TLC

(***************************************************************************)
(* Bounds of the model.                                                    *)
(***************************************************************************)
\* items taken in over a run
MaxItems == 2
\* seconds the wall clock advances over a run
MaxTime == 1
\* CheckIP.process invocations the guard specification follows
MaxInvocations == 24
\* CheckIP.process calls of each worker in the thread specification
MaxCalls == 2
\* tokens of an item name in the specification of the stager and the
\* argument builder
MaxNameLen == 3

(***************************************************************************)
(* Constants of pipeline.py.                                               *)
(***************************************************************************)
VERSION == "20150321.01"
\* SetItemKey("item_name", "smaug.fart.website:8080")
ITEM_NAME == <<"smaug.fart.website", ":", "8080">>
\* PrepareDirectories(warc_prefix="examplecity")
WARC_PREFIX == "examplecity"
\* item["data_dir"], the durable output root
DATA_DIR == <<"data_dir">>

\* the hostnames CheckIP.process resolves
Hostnames ==
  {"twitter.com", "facebook.com", "youtube.com", "microsoft.com",
   "icanhas.cheezburger.com", "archiveteam.org"}
\* len(ip_set) != 6
ExpectedAddresses == 6
\* self._counter = 10
CheckInterval == 10

\* WgetDownload(max_tries=2, accept_on_exit_code=[0, 4, 7, 8])
\* (variant: one try more)
WgetMaxTriesOneMore == 2 + 1
WgetMaxTries == 2
\* (variant: only a zero exit code is accepted)
WgetAcceptOnlyZero == {0}
WgetAcceptOnExitCode == {0, 4, 7, 8}
\* ExternalProcess("sleep", ["sleep", "60"]): the library's defaults
SleepMaxTries == 1
SleepAcceptOnExitCode == {0}

\* (variant: the files are moved before the stats are assembled)
StagesMoveFirst ==
  <<"CheckIP", "SetItemKey", "PrepareDirectories", "WgetDownload",
    "MoveFiles", "PrepareStatsForTracker", "ExternalProcess">>

\* (variant: the files are moved before the capture runs)
StagesMoveBeforeCapture ==
  <<"CheckIP", "SetItemKey", "PrepareDirectories", "MoveFiles",
    "WgetDownload", "PrepareStatsForTracker", "ExternalProcess">>

\* the pipeline's tasks, in the order Pipeline(...) is given them
Stages ==
  <<"CheckIP", "SetItemKey", "PrepareDirectories", "WgetDownload",
    "PrepareStatsForTracker", "MoveFiles", "ExternalProcess">>

(***************************************************************************)
(* Inputs from the environment.                                            *)
(***************************************************************************)
\* the parallel workers, each driving one item at a time: two, the least
\* number with which items are active concurrently
Workers == {1, 2}

\* exit codes an external process is observed with
ExitCodes == {0, 1, 4, 7, 8}

\* socket.gethostbyname as the environment answers it: every name to an
\* address of its own, every name to the address of one proxy, or two names
\* to one shared address
DirectResolver == [h \in Hostnames |-> <<"ip", h>>]
ProxyResolver == [h \in Hostnames |-> <<"ip", "proxy">>]
SharedResolver ==
  [h \in Hostnames |->
     IF h = "facebook.com" THEN <<"ip", "twitter.com">> ELSE <<"ip", h>>]
Resolvers == {DirectResolver, ProxyResolver, SharedResolver}

(***************************************************************************)
(* Strings, paths and the filesystem.                                      *)
(***************************************************************************)
Unset == <<>>

\* str.replace(old, new) for a one-character old
Replace(s, old, new) ==
  [i \in 1..Len(s) |-> IF s[i] = old THEN new ELSE s[i]]

\* (variant: only the colons are replaced)
EscapeColonsOnly(item_name) == Replace(item_name, ":", "_")

\* item_name.replace(':', '_').replace('/', '_')
EscapeItemName(item_name) ==
  Replace(Replace(item_name, ":", "_"), "/", "_")

\* "/".join((item["data_dir"], escaped_item_name))
ItemDirName(data_dir, escaped_item_name) ==
  data_dir \o <<"/">> \o escaped_item_name

\* time.strftime("%Y%m%d-%H%M%S") of a clock that counts whole seconds
Strftime(t) == ToString(t)

\* "%s-%s-%s" % (self.warc_prefix, escaped_item_name, time.strftime(...))
WarcFileBase(warc_prefix, escaped_item_name, t) ==
  <<warc_prefix, "-">> \o escaped_item_name \o <<"-", Strftime(t)>>

\* "%(item_dir)s/%(warc_file_base)s.warc.gz" % item
ItemWarcGz(it) == it.item_dir \o <<"/">> \o it.warc_file_base \o <<".warc.gz">>
\* "%(item_dir)s/%(warc_file_base)s.warc" % item
ItemWarc(it) == it.item_dir \o <<"/">> \o it.warc_file_base \o <<".warc">>
\* "%(data_dir)s/%(warc_file_base)s.warc.gz" % item
DataWarcGz(it) == it.data_dir \o <<"/">> \o it.warc_file_base \o <<".warc.gz">>

\* p lies under directory d
IsUnder(p, d) ==
  /\ Len(p) > Len(d) + 1
  /\ SubSeq(p, 1, Len(d)) = d
  /\ p[Len(d) + 1] = "/"

\* A filesystem is [dirs: the directories, files: path -> content].  A
\* content is the sequence of records in the file: <<>> is the zero-byte
\* file, <<k>> the capture written for item k, <<0>> older data.
EmptyContent == <<>>
StaleContent == <<0>>

FsIsDir(fs, p) == p \in fs.dirs
FsExists(fs, p) == p \in fs.dirs \/ p \in DOMAIN fs.files

Restrict(f, S) == [x \in S |-> f[x]]

\* shutil.rmtree(d) on an existing directory
FsRmtree(fs, d) ==
  [dirs |-> {x \in fs.dirs : x # d /\ ~IsUnder(x, d)},
   files |-> Restrict(fs.files, {x \in DOMAIN fs.files : ~IsUnder(x, d)})]

\* os.makedirs(d) where nothing is at d
FsMakedirs(fs, d) == [fs EXCEPT !.dirs = @ \cup {d}]

\* open(p, "w").close(): p is created or truncated to zero bytes
FsTruncate(fs, p) ==
  [fs EXCEPT !.files =
     [x \in DOMAIN fs.files \cup {p} |-> IF x = p THEN EmptyContent ELSE fs.files[x]]]

\* a process writes content c to p
FsWrite(fs, p, c) ==
  [fs EXCEPT !.files =
     [x \in DOMAIN fs.files \cup {p} |-> IF x = p THEN c ELSE fs.files[x]]]

\* os.rename(src, dst) of an existing file: dst is replaced if it exists
FsRename(fs, src, dst) ==
  [fs EXCEPT !.files =
     [x \in (DOMAIN fs.files \ {src}) \cup {dst} |->
        IF x = dst THEN fs.files[src] ELSE fs.files[x]]]

\* the entries directly or indirectly under d
FsEntries(fs, d) ==
  {x \in fs.dirs \cup DOMAIN fs.files : IsUnder(x, d)}

(***************************************************************************)
(* The state.                                                              *)
(***************************************************************************)
VARIABLES
  counter,    \* CheckIP._counter, shared by all items
  now,        \* the wall clock, in seconds, as last read
  nextId,     \* the number the next item taken in gets
  item,       \* item[w]: the item worker w drives (the seesaw Item)
  disk,       \* the filesystem under data_dir
  event,      \* the last step taken: what ran, for whom, how it ended
  zlib,       \* whether the capture executable was built with zlib
  guardLog,   \* the outcomes of the CheckIP.process invocations that the
              \* guard specification follows
  thread,     \* thread[w]: where worker w stands inside CheckIP.process, in
              \* the specification that follows the statements one by one
  wget_args   \* the argument list WgetArgs.realize returned last, in the
              \* specification of the stager and the argument builder

vars ==
  <<counter, now, nextId, item, disk, event, zlib, guardLog, thread, wget_args>>

\* stats_id_function(item)
StatsIdFunction ==
  [pipeline_hash |-> "PIPELINE_SHA1", script_hash |-> "SCRIPT_SHA1",
   python_version |-> "sys.version"]

NoStats ==
  [set |-> FALSE, version |-> "", file |-> <<>>, digest |-> <<>>, bytes |-> 0,
   id |-> StatsIdFunction]

\* a worker with no item
NoItem ==
  [id |-> 0, status |-> "idle", task |-> 0, running |-> FALSE, tries |-> 0,
   data_dir |-> DATA_DIR, item_name |-> Unset, escaped_item_name |-> Unset,
   item_dir |-> Unset, warc_file_base |-> Unset, stats |-> NoStats,
   trace |-> <<>>]

\* a fresh item entering the pipeline at its first task
NewItem(id) == [NoItem EXCEPT !.id = id, !.status = "running", !.task = 1]

Event(op, w, ok) == [op |-> op, w |-> w, ok |-> ok, code |-> 0 - 1, note |-> ""]
NoEvent == Event("none", 0, TRUE)

\* a worker that is not inside CheckIP.process; loaded is the value of
\* self._counter the worker has read for the decrement, calls the number of
\* calls it has made
IdleThread == [pc |-> "idle", loaded |-> 0, calls |-> 0]

\* item_dir of the pipeline's item name
LiteralItemDir == ItemDirName(DATA_DIR, EscapeItemName(ITEM_NAME))

\* the filesystem a run starts on: data_dir alone, data_dir with a working
\* directory an aborted earlier run left behind, or data_dir with a plain
\* file where the working directory is to be
CleanFs == [dirs |-> {DATA_DIR}, files |-> <<>>]
LeftoverFs ==
  [dirs |-> {DATA_DIR, LiteralItemDir},
   files |-> [x \in {LiteralItemDir \o <<"/", "wpull.db">>} |-> StaleContent]]
FileInTheWayFs ==
  [dirs |-> {DATA_DIR},
   files |-> [x \in {LiteralItemDir} |-> StaleContent]]
InitialFilesystems == {CleanFs, LeftoverFs, FileInTheWayFs}

Init ==
  /\ counter = 0
  /\ now = 0
  /\ nextId = 1
  /\ item = [w \in Workers |-> NoItem]
  /\ disk \in InitialFilesystems
  /\ event = NoEvent
  /\ zlib \in BOOLEAN
  /\ guardLog = <<>>
  /\ thread = [w \in Workers |-> IdleThread]
  /\ wget_args = Unset

(***************************************************************************)
(* The runner: how an item moves through the list of tasks.  Modelled      *)
(* from the design document (section 2, control flow; section 5; section   *)
(* 7, propagation policy): the tasks run in order, a failing task fails    *)
(* the item and no later task runs for it, the success of the last task    *)
(* completes the item, and the worker then goes on to the next item.       *)
(***************************************************************************)
CurrentTask(it) ==
  IF it.status = "running" /\ it.task \in 1..Len(Stages)
  THEN Stages[it.task] ELSE "none"

\* the item waits for task t to start
Ready(it, t) == CurrentTask(it) = t /\ ~it.running

\* Task.complete_item: the task succeeded, the next one (if any) is up
CompleteItem(it, t) ==
  [it EXCEPT !.trace = Append(@, <<t, "ok">>),
             !.running = FALSE,
             !.tries = 0,
             !.task = IF it.task < Len(Stages) THEN it.task + 1 ELSE it.task,
             !.status = IF it.task < Len(Stages) THEN "running" ELSE "done"]

\* Task.fail_item: the task failed, the item is over
FailItem(it, t) ==
  [it EXCEPT !.trace = Append(@, <<t, "fail">>),
             !.running = FALSE,
             !.status = "failed"]

\* the task starts on the item (for an external process: one invocation)
StartItem(it, t) == [it EXCEPT !.trace = Append(@, <<t, "start">>)]

\* ExternalProcess: the process failed and will be invoked again
RetryItem(it, t) ==
  [it EXCEPT !.trace = Append(@, <<t, "retry">>),
             !.running = FALSE,
             !.tries = it.tries + 1]

\* SimpleTask.enqueue: process(item) runs; an exception fails the item
SimpleTaskOutcome(it, t, raised) ==
  IF raised THEN FailItem(StartItem(it, t), t)
  ELSE CompleteItem(StartItem(it, t), t)

\* ExternalProcess, on the exit of the process: accepted, retried or failed
ExternalProcessOutcome(code, tries, max_tries, accept_on_exit_code) ==
  IF code \in accept_on_exit_code THEN "complete"
  ELSE IF tries + 1 < max_tries THEN "retry"
  ELSE "fail"

\* a worker takes the next item in
GetItem(w) ==
  /\ item[w].status \in {"idle", "done", "failed"}
  /\ nextId <= MaxItems
  /\ item' = [item EXCEPT ![w] = NewItem(nextId)]
  /\ nextId' = nextId + 1
  /\ event' = Event("GetItem", w, TRUE)
  /\ UNCHANGED <<counter, now, disk, zlib, guardLog, thread, wget_args>>

(***************************************************************************)
(* CheckIP.                                                                *)
(***************************************************************************)
\* the set the six gethostbyname calls fill
IpSet(resolver) == {resolver[h] : h \in Hostnames}

\* (variant: the counter also counts down on the invocation that checks, so
\* that a check is followed by one skip fewer)
CheckIPProcessShort(c, resolver) ==
  LET checked == c <= 0
      raised == checked /\ Cardinality(IpSet(resolver)) # ExpectedAddresses
  IN [checked |-> checked,
      raised |-> raised,
      counter |-> IF raised THEN c
                  ELSE IF c <= 0 THEN CheckInterval - 1
                  ELSE c - 1]

\* (variant: the counter is set to the interval before the outcome of the
\* check is looked at)
CheckIPProcessResetFirst(c, resolver) ==
  LET checked == c <= 0
      raised == checked /\ Cardinality(IpSet(resolver)) # ExpectedAddresses
  IN [checked |-> checked,
      raised |-> raised,
      counter |-> IF c <= 0 THEN CheckInterval ELSE c - 1]

\* (variant: the counter is decremented whenever it is not set to the
\* interval)
CheckIPProcessCountDown(c, resolver) ==
  LET checked == c <= 0
      raised == checked /\ Cardinality(IpSet(resolver)) # ExpectedAddresses
  IN [checked |-> checked,
      raised |-> raised,
      counter |-> IF checked /\ ~raised THEN CheckInterval ELSE c - 1]

\* CheckIP.process on counter c: whether the check ran, whether it raised,
\* and the counter afterwards
CheckIPProcess(c, resolver) ==
  LET checked == c <= 0
      raised == checked /\ Cardinality(IpSet(resolver)) # ExpectedAddresses
  IN [checked |-> checked,
      raised |-> raised,
      counter |-> IF raised THEN c
                  ELSE IF c <= 0 THEN CheckInterval
                  ELSE c - 1]

GuardOutcome(res) ==
  IF ~res.checked THEN "skip"
  ELSE IF res.raised THEN "check_failed"
  ELSE "check_ok"

CheckIP(w) ==
  /\ Ready(item[w], "CheckIP")
  /\ \E resolver \in Resolvers :
       LET res == CheckIPProcess(counter, resolver) IN
         /\ counter' = res.counter
         /\ item' = [item EXCEPT ![w] =
                       SimpleTaskOutcome(item[w], "CheckIP", res.raised)]
         /\ event' = [Event("CheckIP", w, ~res.raised) EXCEPT
                        !.note = GuardOutcome(res)]
  /\ UNCHANGED <<now, nextId, disk, zlib, guardLog, thread, wget_args>>

(***************************************************************************)
(* SetItemKey("item_name", "smaug.fart.website:8080").                     *)
(***************************************************************************)
SetItemKey(w) ==
  /\ Ready(item[w], "SetItemKey")
  /\ item' = [item EXCEPT ![w] =
                SimpleTaskOutcome([item[w] EXCEPT !.item_name = ITEM_NAME],
                                  "SetItemKey", FALSE)]
  /\ event' = Event("SetItemKey", w, TRUE)
  /\ UNCHANGED <<counter, now, nextId, disk, zlib, guardLog, thread, wget_args>>

(***************************************************************************)
(* PrepareDirectories.                                                     *)
(***************************************************************************)
\* (variant: an existing directory is kept and reused, not removed)
PrepareDirectoriesProcessKeep(f, it, t, io_ok) ==
  IF it.item_name = Unset
  THEN [raised |-> TRUE, fs |-> f, item |-> it, removed |-> FALSE]
  ELSE
    LET escaped_item_name == EscapeItemName(it.item_name)
        it1 == [it EXCEPT !.escaped_item_name = escaped_item_name]
        dirname == ItemDirName(it.data_dir, escaped_item_name)
        made == io_ok /\ (FsIsDir(f, dirname) \/ ~FsExists(f, dirname))
        f2 == FsMakedirs(f, dirname)
        it2 == [it1 EXCEPT
                  !.item_dir = dirname,
                  !.warc_file_base =
                     WarcFileBase(WARC_PREFIX, escaped_item_name, t)]
        f3 == FsTruncate(f2, ItemWarcGz(it2))
    IN IF made
       THEN [raised |-> FALSE, fs |-> f3, item |-> it2,
             removed |-> FsIsDir(f, dirname)]
       ELSE [raised |-> TRUE, fs |-> f, item |-> it1, removed |-> FALSE]

\* PrepareDirectories.process on filesystem f at time t; io_ok is whether
\* the operating system lets os.makedirs through.  The result holds the
\* filesystem and the item as the call leaves them, also when it raises.
PrepareDirectoriesProcess(f, it, t, io_ok) ==
  IF it.item_name = Unset
  THEN [raised |-> TRUE, fs |-> f, item |-> it, removed |-> FALSE]
  ELSE
    LET escaped_item_name == EscapeItemName(it.item_name)
        it1 == [it EXCEPT !.escaped_item_name = escaped_item_name]
        dirname == ItemDirName(it.data_dir, escaped_item_name)
        removed == FsIsDir(f, dirname)
        f1 == IF removed THEN FsRmtree(f, dirname) ELSE f
        made == io_ok /\ ~FsExists(f1, dirname)
        f2 == FsMakedirs(f1, dirname)
        it2 == [it1 EXCEPT
                  !.item_dir = dirname,
                  !.warc_file_base =
                     WarcFileBase(WARC_PREFIX, escaped_item_name, t)]
        f3 == FsTruncate(f2, ItemWarcGz(it2))
    IN IF made
       THEN [raised |-> FALSE, fs |-> f3, item |-> it2, removed |-> removed]
       ELSE [raised |-> TRUE, fs |-> f1, item |-> it1, removed |-> removed]

\* The wall clock is read here and nowhere else: since it was last read it
\* has advanced by some number of seconds, possibly none.
PrepareDirectories(w) ==
  /\ Ready(item[w], "PrepareDirectories")
  /\ \E io_ok \in BOOLEAN, t \in now..MaxTime :
       LET res == PrepareDirectoriesProcess(disk, item[w], t, io_ok) IN
         /\ now' = t
         /\ disk' = res.fs
         /\ item' = [item EXCEPT ![w] =
                       SimpleTaskOutcome(res.item, "PrepareDirectories",
                                         res.raised)]
         /\ event' = [Event("PrepareDirectories", w, ~res.raised) EXCEPT
                        !.note = IF res.removed THEN "removed" ELSE "fresh"]
  /\ UNCHANGED <<counter, nextId, zlib, guardLog, thread, wget_args>>

(***************************************************************************)
(* WgetDownload(WgetArgs(), max_tries=2, accept_on_exit_code=[0,4,7,8]).   *)
(***************************************************************************)
\* 'bind_address' in globals(): pipeline.py defines none
BIND_ADDRESS == Unset

\* (variant: the paths are built once, for the pipeline's item name at clock
\* value 0, and kept)
WgetArgsRealizeCached(it) ==
  << <<"WPULL_EXE">>,
     <<"-nv">>,
     <<"--python-script">>, <<"examplecity.py">>,
     <<"-o">>, LiteralItemDir \o <<"/", "wpull.log">>,
     <<"--no-check-certificate">>,
     <<"--database">>, LiteralItemDir \o <<"/", "wpull.db">>,
     <<"--delete-after">>,
     <<"--no-robots">>,
     <<"--no-cookies">>,
     <<"--rotate-dns">>,
     <<"--recursive">>, <<"--level=2">>,
     <<"--no-parent">>,
     <<"--page-requisites">>,
     <<"--span-hosts-allow">>, <<"page-requisites,linked-pages">>,
     <<"--timeout">>, <<"30">>,
     <<"--tries">>, <<"2">>,
     <<"--wait">>, <<"0.5">>,
     <<"--random-wait">>,
     <<"--waitretry">>, <<"5">>,
     <<"--warc-file">>,
       LiteralItemDir \o <<"/">>
         \o WarcFileBase(WARC_PREFIX, EscapeItemName(ITEM_NAME), 0),
     <<"--warc-header">>, <<"operator: Archive Team">>,
     <<"--warc-header">>, <<"examplecity-dld-script-version: ", VERSION>>,
     <<"--warc-header">>, <<"examplecity-user: ">> \o it.item_name,
     <<"http://">> \o it.item_name >>

\* WgetArgs.realize(item): the argument list, each argument a string
WgetArgsRealize(it) ==
  << <<"WPULL_EXE">>,
     <<"-nv">>,
     <<"--python-script">>, <<"examplecity.py">>,
     <<"-o">>, it.item_dir \o <<"/", "wpull.log">>,
     <<"--no-check-certificate">>,
     <<"--database">>, it.item_dir \o <<"/", "wpull.db">>,
     <<"--delete-after">>,
     <<"--no-robots">>,
     <<"--no-cookies">>,
     <<"--rotate-dns">>,
     <<"--recursive">>, <<"--level=2">>,
     <<"--no-parent">>,
     <<"--page-requisites">>,
     <<"--span-hosts-allow">>, <<"page-requisites,linked-pages">>,
     <<"--timeout">>, <<"30">>,
     <<"--tries">>, <<"2">>,
     <<"--wait">>, <<"0.5">>,
     <<"--random-wait">>,
     <<"--waitretry">>, <<"5">>,
     <<"--warc-file">>, it.item_dir \o <<"/">> \o it.warc_file_base,
     <<"--warc-header">>, <<"operator: Archive Team">>,
     <<"--warc-header">>, <<"examplecity-dld-script-version: ", VERSION>>,
     <<"--warc-header">>, <<"examplecity-user: ">> \o it.item_name,
     <<"http://">> \o it.item_name >>
  \o (IF BIND_ADDRESS # Unset
      THEN << <<"--bind-address">>, BIND_ADDRESS >> ELSE << >>)

\* the argument that follows option opt in argv, or Unset
ArgAfter(argv, opt) ==
  IF \E i \in 1..(Len(argv) - 1) : argv[i] = opt
  THEN argv[(CHOOSE i \in 1..(Len(argv) - 1) :
                  argv[i] = opt /\ \A j \in 1..(i - 1) : argv[j] # opt) + 1]
  ELSE Unset

\* the item fields the argument list interpolates are set
ArgsRealizable(it) ==
  it.item_dir # Unset /\ it.warc_file_base # Unset /\ it.item_name # Unset

\* what a run of the capture executable, started with argument list argv
\* for item it, leaves on the filesystem: it writes its records to the file
\* --warc-file names (the .warc.gz, or the .warc when it was built without
\* compression) and writes its log, if the directory of these files is
\* there
CaptureWrite(f, it, argv, with_zlib) ==
  LET target == ArgAfter(argv, <<"--warc-file">>)
                  \o (IF with_zlib THEN <<".warc.gz">> ELSE <<".warc">>)
  IN IF FsIsDir(f, it.item_dir)
     THEN FsWrite(FsWrite(f, target, <<it.id>>),
                  ArgAfter(argv, <<"-o">>), <<it.id>>)
     ELSE f

\* The process is started with WgetArgs.realize(item); the item's fields
\* do not change while it runs, so the argument list of the running
\* process is WgetArgsRealize of the item throughout.
WgetDownloadStart(w) ==
  /\ Ready(item[w], "WgetDownload")
  /\ item' = [item EXCEPT ![w] =
                IF ArgsRealizable(item[w])
                THEN [StartItem(item[w], "WgetDownload") EXCEPT
                        !.running = TRUE]
                ELSE FailItem(StartItem(item[w], "WgetDownload"),
                              "WgetDownload")]
  /\ event' = Event("WgetDownloadStart", w, ArgsRealizable(item[w]))
  /\ UNCHANGED <<counter, now, nextId, disk, zlib, guardLog, thread, wget_args>>

WgetDownloadExit(w) ==
  /\ CurrentTask(item[w]) = "WgetDownload"
  /\ item[w].running
  /\ \E code \in ExitCodes :
       LET it == item[w]
           outcome == ExternalProcessOutcome(code, it.tries, WgetMaxTries,
                                             WgetAcceptOnExitCode)
           ended == it
       IN
         /\ disk' = CaptureWrite(disk, it, WgetArgsRealize(it), zlib)
         /\ item' = [item EXCEPT ![w] =
                       CASE outcome = "complete" ->
                              CompleteItem(ended, "WgetDownload")
                         [] outcome = "retry" ->
                              RetryItem(ended, "WgetDownload")
                         [] OTHER ->
                              FailItem([ended EXCEPT !.tries = it.tries + 1],
                                       "WgetDownload")]
         /\ event' = [Event("WgetDownloadExit", w, outcome = "complete") EXCEPT
                        !.code = code,
                        !.note = outcome]
  /\ UNCHANGED <<counter, now, nextId, zlib, guardLog, thread, wget_args>>

(***************************************************************************)
(* PrepareStatsForTracker, from the design document (section 4.6): each    *)
(* file of a group is replaced by its digest and size.                     *)
(***************************************************************************)
Digest(content) == <<"sha1">> \o content
Size(content) == Len(content)

PrepareStatsForTrackerProcess(f, it) ==
  IF it.item_dir = Unset \/ it.warc_file_base = Unset
       \/ ItemWarcGz(it) \notin DOMAIN f.files
  THEN [raised |-> TRUE, stats |-> it.stats]
  ELSE [raised |-> FALSE,
        stats |-> [set |-> TRUE,
                   version |-> VERSION,
                   file |-> ItemWarcGz(it),
                   digest |-> Digest(f.files[ItemWarcGz(it)]),
                   bytes |-> Size(f.files[ItemWarcGz(it)]),
                   id |-> StatsIdFunction]]

PrepareStatsForTracker(w) ==
  /\ Ready(item[w], "PrepareStatsForTracker")
  /\ LET res == PrepareStatsForTrackerProcess(disk, item[w]) IN
       /\ item' = [item EXCEPT ![w] =
                     SimpleTaskOutcome([item[w] EXCEPT !.stats = res.stats],
                                       "PrepareStatsForTracker", res.raised)]
       /\ event' = Event("PrepareStatsForTracker", w, ~res.raised)
  /\ UNCHANGED <<counter, now, nextId, disk, zlib, guardLog, thread, wget_args>>

(***************************************************************************)
(* MoveFiles.                                                              *)
(***************************************************************************)
\* (variant: item_dir is deleted whether or not the move went through)
MoveFilesProcessAlwaysClean(f, it, io_ok) ==
  IF it.item_dir = Unset \/ it.warc_file_base = Unset
  THEN [raised |-> TRUE, fs |-> f, step |-> "interpolate"]
  ELSE IF FsExists(f, ItemWarc(it))
  THEN [raised |-> TRUE, fs |-> f, step |-> "zlib"]
  ELSE IF ~io_ok \/ ItemWarcGz(it) \notin DOMAIN f.files
            \/ ~FsIsDir(f, it.data_dir)
  THEN [raised |-> TRUE,
        fs |-> IF FsIsDir(f, it.item_dir) THEN FsRmtree(f, it.item_dir) ELSE f,
        step |-> "rename"]
  ELSE
    LET f1 == FsRename(f, ItemWarcGz(it), DataWarcGz(it)) IN
      IF ~FsIsDir(f1, it.item_dir)
      THEN [raised |-> TRUE, fs |-> f1, step |-> "rmtree"]
      ELSE [raised |-> FALSE, fs |-> FsRmtree(f1, it.item_dir),
            step |-> "none"]

\* (variant: the uncompressed file is looked for after the move)
MoveFilesProcessLateCheck(f, it, io_ok) ==
  IF it.item_dir = Unset \/ it.warc_file_base = Unset
  THEN [raised |-> TRUE, fs |-> f, step |-> "interpolate"]
  ELSE IF ~io_ok \/ ItemWarcGz(it) \notin DOMAIN f.files
            \/ ~FsIsDir(f, it.data_dir)
  THEN [raised |-> TRUE, fs |-> f, step |-> "rename"]
  ELSE
    LET f1 == FsRename(f, ItemWarcGz(it), DataWarcGz(it)) IN
      IF FsExists(f1, ItemWarc(it))
      THEN [raised |-> TRUE, fs |-> f1, step |-> "zlib"]
      ELSE [raised |-> FALSE, fs |-> FsRmtree(f1, it.item_dir),
            step |-> "none"]

\* MoveFiles.process on filesystem f; io_ok is whether the operating
\* system lets os.rename through.  step is the statement that raised.
MoveFilesProcess(f, it, io_ok) ==
  IF it.item_dir = Unset \/ it.warc_file_base = Unset
  THEN [raised |-> TRUE, fs |-> f, step |-> "interpolate"]
  ELSE IF FsExists(f, ItemWarc(it))
  THEN [raised |-> TRUE, fs |-> f, step |-> "zlib"]
  ELSE IF ~io_ok \/ ItemWarcGz(it) \notin DOMAIN f.files
            \/ ~FsIsDir(f, it.data_dir)
  THEN [raised |-> TRUE, fs |-> f, step |-> "rename"]
  ELSE
    LET f1 == FsRename(f, ItemWarcGz(it), DataWarcGz(it)) IN
      IF ~FsIsDir(f1, it.item_dir)
      THEN [raised |-> TRUE, fs |-> f1, step |-> "rmtree"]
      ELSE [raised |-> FALSE, fs |-> FsRmtree(f1, it.item_dir),
            step |-> "none"]

MoveFiles(w) ==
  /\ Ready(item[w], "MoveFiles")
  /\ \E io_ok \in BOOLEAN :
       LET res == MoveFilesProcess(disk, item[w], io_ok) IN
         /\ disk' = res.fs
         /\ item' = [item EXCEPT ![w] =
                       SimpleTaskOutcome(item[w], "MoveFiles", res.raised)]
         /\ event' = [Event("MoveFiles", w, ~res.raised) EXCEPT
                        !.note = res.step]
  /\ UNCHANGED <<counter, now, nextId, zlib, guardLog, thread, wget_args>>

(***************************************************************************)
(* ExternalProcess("sleep", ["sleep", "60"]).                              *)
(***************************************************************************)
SleepArgs == << <<"sleep">>, <<"60">> >>

ExternalProcessStart(w) ==
  /\ Ready(item[w], "ExternalProcess")
  /\ item' = [item EXCEPT ![w] =
                [StartItem(item[w], "ExternalProcess") EXCEPT
                   !.running = TRUE]]
  /\ event' = Event("ExternalProcessStart", w, TRUE)
  /\ UNCHANGED <<counter, now, nextId, disk, zlib, guardLog, thread, wget_args>>

ExternalProcessExit(w) ==
  /\ CurrentTask(item[w]) = "ExternalProcess"
  /\ item[w].running
  /\ \E code \in ExitCodes :
       LET it == item[w]
           outcome == ExternalProcessOutcome(code, it.tries, SleepMaxTries,
                                             SleepAcceptOnExitCode)
           ended == it
       IN
         /\ item' = [item EXCEPT ![w] =
                       CASE outcome = "complete" ->
                              CompleteItem(ended, "ExternalProcess")
                         [] outcome = "retry" ->
                              RetryItem(ended, "ExternalProcess")
                         [] OTHER ->
                              FailItem([ended EXCEPT !.tries = it.tries + 1],
                                       "ExternalProcess")]
         /\ event' = [Event("ExternalProcessExit", w, outcome = "complete")
                        EXCEPT !.note = outcome]
  /\ UNCHANGED <<counter, now, nextId, disk, zlib, guardLog, thread, wget_args>>

Next ==
  \/ \E w \in Workers : GetItem(w)
  \/ \E w \in Workers : CheckIP(w)
  \/ \E w \in Workers : SetItemKey(w)
  \/ \E w \in Workers : PrepareDirectories(w)
  \/ \E w \in Workers : WgetDownloadStart(w)
  \/ \E w \in Workers : WgetDownloadExit(w)
  \/ \E w \in Workers : PrepareStatsForTracker(w)
  \/ \E w \in Workers : MoveFiles(w)
  \/ \E w \in Workers : ExternalProcessStart(w)
  \/ \E w \in Workers : ExternalProcessExit(w)

Spec == Init /\ [][Next]_vars

(***************************************************************************)
(* The guard specification: CheckIP.process invoked again and again, as    *)
(* by one item after another, and the outcome of each invocation logged.   *)
(***************************************************************************)
CheckIPInvoke ==
  /\ Len(guardLog) < MaxInvocations
  /\ \E resolver \in Resolvers :
       LET res == CheckIPProcess(counter, resolver) IN
         /\ counter' = res.counter
         /\ guardLog' = Append(guardLog, GuardOutcome(res))
  /\ UNCHANGED <<now, nextId, item, disk, event, zlib, thread, wget_args>>

SpecGuard == Init /\ [][CheckIPInvoke]_vars

(***************************************************************************)
(* The thread specification: the workers run CheckIP.process as threads,   *)
(* statement by statement.  The method takes no lock, so between any two   *)
(* of its accesses to self._counter the other worker may run: the test of  *)
(* line 75, the test of line 94, the assignment of line 95, and the read   *)
(* and the write that make up "self._counter -= 1" on line 97 are steps of *)
(* their own.  The run starts with the counter at any value the method     *)
(* leaves it at.                                                           *)
(***************************************************************************)
InitThreads ==
  /\ counter \in 0..CheckInterval
  /\ now = 0
  /\ nextId = 1
  /\ item = [w \in Workers |-> NoItem]
  /\ disk = CleanFs
  /\ event = NoEvent
  /\ zlib = TRUE
  /\ guardLog = <<>>
  /\ thread = [w \in Workers |-> IdleThread]
  /\ wget_args = Unset

\* line 75: the worker enters the method and tests the counter
ThreadTestCheck(w) ==
  /\ thread[w].pc = "idle"
  /\ thread[w].calls < MaxCalls
  /\ thread' = [thread EXCEPT
                  ![w].pc = IF counter <= 0 THEN "resolve" ELSE "test",
                  ![w].calls = @ + 1]
  /\ UNCHANGED <<counter, now, nextId, item, disk, event, zlib, guardLog,
                 wget_args>>

\* lines 76-91: the six names are resolved; the method raises on a set of
\* other than six addresses
ThreadResolve(w) ==
  /\ thread[w].pc = "resolve"
  /\ \E resolver \in Resolvers :
       thread' = [thread EXCEPT
                    ![w].pc =
                       IF Cardinality(IpSet(resolver)) # ExpectedAddresses
                       THEN "idle" ELSE "test"]
  /\ UNCHANGED <<counter, now, nextId, item, disk, event, zlib, guardLog,
                 wget_args>>

\* line 94: the counter is tested again
ThreadTestReset(w) ==
  /\ thread[w].pc = "test"
  /\ thread' = [thread EXCEPT
                  ![w].pc = IF counter <= 0 THEN "reset" ELSE "load"]
  /\ UNCHANGED <<counter, now, nextId, item, disk, event, zlib, guardLog,
                 wget_args>>

\* line 95: self._counter = 10
ThreadReset(w) ==
  /\ thread[w].pc = "reset"
  /\ counter' = CheckInterval
  /\ thread' = [thread EXCEPT ![w].pc = "idle"]
  /\ UNCHANGED <<now, nextId, item, disk, event, zlib, guardLog, wget_args>>

\* line 97, first half: self._counter is read
ThreadLoad(w) ==
  /\ thread[w].pc = "load"
  /\ thread' = [thread EXCEPT ![w].pc = "store", ![w].loaded = counter]
  /\ UNCHANGED <<counter, now, nextId, item, disk, event, zlib, guardLog,
                 wget_args>>

\* line 97, second half: the value read, less one, is written back
ThreadStore(w) ==
  /\ thread[w].pc = "store"
  /\ counter' = thread[w].loaded - 1
  /\ thread' = [thread EXCEPT ![w].pc = "idle"]
  /\ UNCHANGED <<now, nextId, item, disk, event, zlib, guardLog, wget_args>>

NextThreads ==
  \/ \E w \in Workers : ThreadTestCheck(w)
  \/ \E w \in Workers : ThreadResolve(w)
  \/ \E w \in Workers : ThreadTestReset(w)
  \/ \E w \in Workers : ThreadReset(w)
  \/ \E w \in Workers : ThreadLoad(w)
  \/ \E w \in Workers : ThreadStore(w)

SpecThreads == InitThreads /\ [][NextThreads]_vars

(***************************************************************************)
(* The specification of the stager and the argument builder:               *)
(* PrepareDirectories.process and WgetArgs.realize called, any number of   *)
(* times and in any order, on an item of any name.                         *)
(***************************************************************************)
\* the tokens of an item name: the two characters the stager replaces, the
\* character it replaces them with, and a run of other characters
NameTokens == {":", "/", "_", "a"}

ItemNames == UNION {[1..n -> NameTokens] : n \in 1..MaxNameLen}

InitBuilder ==
  /\ counter = 0
  /\ now = 0
  /\ nextId = 1
  /\ \E v \in Workers, name \in ItemNames :
       item = [w \in Workers |->
                 IF w = v THEN [NewItem(1) EXCEPT !.item_name = name]
                 ELSE NoItem]
  /\ disk = CleanFs
  /\ event = NoEvent
  /\ zlib = TRUE
  /\ guardLog = <<>>
  /\ thread = [w \in Workers |-> IdleThread]
  /\ wget_args = Unset

\* PrepareDirectories.process(item), with the clock read as in
\* PrepareDirectories
StageItem(w) ==
  /\ item[w].status = "running"
  /\ \E io_ok \in BOOLEAN, t \in now..MaxTime :
       LET res == PrepareDirectoriesProcess(disk, item[w], t, io_ok) IN
         /\ now' = t
         /\ disk' = res.fs
         /\ item' = [item EXCEPT ![w] = res.item]
         /\ event' = [Event("PrepareDirectories", w, ~res.raised) EXCEPT
                        !.note = IF res.removed THEN "removed" ELSE "fresh"]
  /\ UNCHANGED <<counter, nextId, zlib, guardLog, thread, wget_args>>

\* WgetArgs().realize(item): the list is returned, or the interpolation of
\* a field the item does not have raises
RealizeArgs(w) ==
  /\ item[w].status = "running"
  /\ wget_args' = IF ArgsRealizable(item[w])
                  THEN WgetArgsRealize(item[w]) ELSE wget_args
  /\ event' = [Event("WgetArgs", w, ArgsRealizable(item[w])) EXCEPT
                 !.note = IF ~ArgsRealizable(item[w]) THEN "raised"
                          ELSE IF wget_args = Unset THEN "first"
                          ELSE IF wget_args' = wget_args THEN "same"
                          ELSE "rebuilt"]
  /\ UNCHANGED <<counter, now, nextId, item, disk, zlib, guardLog, thread>>

NextBuilder ==
  \/ \E w \in Workers : StageItem(w)
  \/ \E w \in Workers : RealizeArgs(w)

SpecBuilder == InitBuilder /\ [][NextBuilder]_vars

(***************************************************************************)
(* Properties.                                                             *)
(***************************************************************************)
Last(seq) == seq[Len(seq)]

\* how often task t was invoked, and how often retried, for the item
Invocations(it, t) ==
  Len(SelectSeq(it.trace, LAMBDA e : e = <<t, "start">>))
Retries(it, t) ==
  Len(SelectSeq(it.trace, LAMBDA e : e = <<t, "retry">>))

\* the order in which the pipeline declares its stages
DeclaredOrder ==
  <<"CheckIP", "SetItemKey", "PrepareDirectories", "WgetDownload",
    "PrepareStatsForTracker", "MoveFiles", "ExternalProcess">>

\* stage t comes right after stage s in the declared order
ComesNext(s, t) ==
  \E k \in 1..(Len(DeclaredOrder) - 1) :
    DeclaredOrder[k] = s /\ DeclaredOrder[k + 1] = t

\* the events of an item follow the declared order of the stages: a stage
\* starts first of all (the first stage), after the success of the stage
\* before it, or after its own retry; it ends after it has started; and a
\* failure is the last event
TraceInOrder(it) ==
  LET tr == it.trace IN
    /\ \A i \in 1..Len(tr) :
         IF tr[i][2] = "start"
         THEN \/ i = 1 /\ tr[i][1] = DeclaredOrder[1]
              \/ i > 1 /\ tr[i - 1] = <<tr[i][1], "retry">>
              \/ i > 1 /\ tr[i - 1][2] = "ok"
                       /\ ComesNext(tr[i - 1][1], tr[i][1])
         ELSE /\ i > 1
              /\ tr[i - 1] = <<tr[i][1], "start">>
              /\ tr[i][2] \in {"ok", "retry", "fail"}
              /\ tr[i][2] = "fail" => i = Len(tr)
    /\ it.running => Len(tr) > 0 /\ Last(tr)[2] = "start"
    /\ it.status = "failed" <=> (Len(tr) > 0 /\ Last(tr)[2] = "fail")
    /\ it.status = "done" <=>
         (Len(tr) > 0 /\ Last(tr) = <<DeclaredOrder[Len(DeclaredOrder)], "ok">>)

\* C1: for every item the stages run strictly in the declared order
\* (CheckIP, SetItemKey, PrepareDirectories, WgetDownload,
\* PrepareStatsForTracker, MoveFiles, ExternalProcess): a stage starts only
\* when the stage before it has returned successfully (or is itself being
\* retried), nothing runs after a stage has failed, and the item is complete
\* exactly when the last stage has succeeded.
C1_StagesInDeclaredOrder == \A w \in Workers : TraceInOrder(item[w])

\* one item went through every stage and is complete, another failed in
\* MoveFiles after its first five stages
C1_Witness ==
  \E w1, w2 \in Workers :
    /\ item[w1].status = "done"
    /\ Len(item[w1].trace) >= 2 * Len(DeclaredOrder)
    /\ item[w2].status = "failed"
    /\ Last(item[w2].trace) = <<"MoveFiles", "fail">>

\* the invocation at position i of the log skipped the check exactly when
\* one of the interval's worth of invocations before it checked with success
SkipsWithinInterval(log) ==
  \A i \in 1..Len(log) :
    log[i] = "skip" <=>
      \E j \in 1..(i - 1) : i - j <= 10 /\ log[j] = "check_ok"

\* the skips at the end of the log
TrailingSkips(log) ==
  Cardinality({i \in 1..Len(log) : \A j \in i..Len(log) : log[j] = "skip"})

\* the counter the log accounts for: the interval less the skips since the
\* last check if that check succeeded, and zero otherwise
CounterOf(log) ==
  LET n == Len(log) - TrailingSkips(log) IN
    IF n > 0 /\ log[n] = "check_ok" THEN 10 - TrailingSkips(log) ELSE 0

\* C2: over any sequence of CheckIP.process invocations the check runs only
\* when the counter is <= 0; a successful check sets the counter to 10, each
\* of the next 10 invocations decrements it and skips the check, and the
\* invocation after those checks again: an invocation skips the check
\* exactly when a successful check lies at most 10 invocations back.
C2_CheckOncePerInterval ==
  /\ SkipsWithinInterval(guardLog)
  /\ counter = CounterOf(guardLog)
  /\ counter \in 0..10

\* a successful check, its ten skips, and the next check on the twelfth
\* invocation
C2_Witness ==
  /\ Len(guardLog) >= 12
  /\ guardLog[1] = "check_ok"
  /\ \A i \in 2..11 : guardLog[i] = "skip"
  /\ guardLog[12] = "check_ok"
  /\ counter = 10

\* some item's reachability check has failed
CheckHasFailed ==
  \E w \in Workers :
    /\ item[w].status = "failed"
    /\ Last(item[w].trace) = <<"CheckIP", "fail">>

\* C3: when CheckIP performs the check and fewer than 6 distinct addresses
\* come back, the whole run is aborted: from then on no new item is taken in.
C3_FailedCheckHaltsIntake ==
  [][CheckHasFailed => nextId' = nextId]_vars

\* C4: when the capture process exits with a code in [0, 4, 7, 8] on its
\* first invocation, also a non-zero code such as 4, WgetDownload reports
\* success at once: the stage has succeeded after exactly one invocation and
\* no retry; an accepted code on a later invocation succeeds as well.
C4_AcceptedExitCodeSucceeds ==
  \A w \in Workers :
    (event.op = "WgetDownloadExit" /\ event.w = w
       /\ event.code \in {0, 4, 7, 8})
    => /\ event.ok
       /\ Last(item[w].trace) = <<"WgetDownload", "ok">>
       /\ item[w].status = "running"
       /\ CurrentTask(item[w]) = "PrepareStatsForTracker"
       /\ Invocations(item[w], "WgetDownload")
            = Retries(item[w], "WgetDownload") + 1

\* the capture process has exited with code 4 on its first invocation and
\* the stage has succeeded
C4_Witness ==
  \E w \in Workers :
    /\ event.op = "WgetDownloadExit" /\ event.w = w /\ event.code = 4
    /\ Invocations(item[w], "WgetDownload") = 1
    /\ Retries(item[w], "WgetDownload") = 0
    /\ Last(item[w].trace) = <<"WgetDownload", "ok">>

\* C5: with max_tries = 2 the capture process is never invoked a third time;
\* an unaccepted exit code on the first invocation leads to a second one, an
\* unaccepted exit code on the second fails the item, and the stage never
\* succeeds on an unaccepted exit code.
C5_TwoTriesThenFailure ==
  \A w \in Workers :
    /\ Invocations(item[w], "WgetDownload") <= 2
    /\ (event.op = "WgetDownloadExit" /\ event.w = w
          /\ event.code \notin {0, 4, 7, 8})
       => /\ ~event.ok
          /\ Last(item[w].trace)[1] = "WgetDownload"
          /\ Invocations(item[w], "WgetDownload") = 1
               => /\ Last(item[w].trace)[2] = "retry"
                  /\ Ready(item[w], "WgetDownload")
          /\ Invocations(item[w], "WgetDownload") = 2
               => /\ Last(item[w].trace)[2] = "fail"
                  /\ item[w].status = "failed"

\* the capture process has exited with an unaccepted code for the second
\* time and the item has failed
C5_Witness ==
  \E w \in Workers :
    /\ event.op = "WgetDownloadExit" /\ event.w = w /\ event.code = 1
    /\ Invocations(item[w], "WgetDownload") = 2
    /\ item[w].status = "failed"

\* C6: if item_dir/warc_file_base.warc exists when MoveFiles.process runs,
\* the stage fails and moves nothing: the filesystem is left as it was (the
\* compressed file still in item_dir, nothing new in data_dir, item_dir not
\* deleted).
C6_UncompressedBlocksMove ==
  [][\A w \in Workers :
       (MoveFiles(w) /\ FsExists(disk, ItemWarc(item[w])))
       => /\ disk' = disk
          /\ item'[w].status = "failed"
          /\ Last(item'[w].trace) = <<"MoveFiles", "fail">>]_vars

\* MoveFiles has just failed on the uncompressed file, with the compressed
\* file in item_dir beside it
C6_Witness ==
  \E w \in Workers :
    /\ event.op = "MoveFiles" /\ event.w = w /\ event.note = "zlib"
    /\ FsExists(disk, ItemWarc(item[w]))
    /\ ItemWarcGz(item[w]) \in DOMAIN disk.files
    /\ FsIsDir(disk, item[w].item_dir)

\* C7: after the full pipeline has succeeded for an item,
\* data_dir/warc_file_base.warc.gz exists, item_dir does not exist, and the
\* stats record holds the digest and the size of that file.
C7_SuccessLeavesArtifactOnly ==
  \A w \in Workers :
    item[w].status = "done"
    => /\ DataWarcGz(item[w]) \in DOMAIN disk.files
       /\ ~FsExists(disk, item[w].item_dir)
       /\ item[w].stats.set
       /\ item[w].stats.digest = Digest(disk.files[DataWarcGz(item[w])])
       /\ item[w].stats.bytes = Size(disk.files[DataWarcGz(item[w])])

\* C8: after PrepareDirectories.process has returned, item_dir is
\* data_dir/escaped_item_name and exists, and all it holds is the zero-byte
\* file warc_file_base.warc.gz: nothing that was there before is left.
C8_StagedDirectoryIsFresh ==
  \A w \in Workers :
    (event.op = "PrepareDirectories" /\ event.w = w /\ event.ok)
    => /\ item[w].item_dir
            = item[w].data_dir \o <<"/">> \o item[w].escaped_item_name
       /\ FsIsDir(disk, item[w].item_dir)
       /\ FsEntries(disk, item[w].item_dir) = {ItemWarcGz(item[w])}
       /\ disk.files[ItemWarcGz(item[w])] = EmptyContent

\* PrepareDirectories has just returned after removing a directory that was
\* there before
C8_Witness ==
  \E w \in Workers :
    /\ event.op = "PrepareDirectories" /\ event.w = w /\ event.ok
    /\ event.note = "removed"
    /\ FsEntries(disk, item[w].item_dir) = {ItemWarcGz(item[w])}

\* the item is between PrepareDirectories and its end
Staged(it) == it.status = "running" /\ it.item_dir # Unset

\* C9: no two concurrently active items share an item_dir value.
C9_NoSharedItemDir ==
  \A w1, w2 \in Workers :
    (w1 # w2 /\ Staged(item[w1]) /\ Staged(item[w2]))
    => item[w1].item_dir # item[w2].item_dir

\* p is a file directly in data_dir
IsDataFile(p) ==
  /\ IsUnder(p, DATA_DIR)
  /\ \A i \in (Len(DATA_DIR) + 2)..Len(p) : p[i] # "/"

\* C10: a file in data_dir is immutable once present: no step removes it or
\* changes its content.
C10_FinalArtifactsImmutable ==
  [][\A p \in DOMAIN disk.files :
       IsDataFile(p) =>
         /\ p \in DOMAIN disk'.files
         /\ disk'.files[p] = disk.files[p]]_vars

\* the item has been given its warc_file_base
Named(it) == it.warc_file_base # Unset

\* C11: two attempts on the same item_name are given different
\* warc_file_base values by PrepareDirectories, also when the second attempt
\* follows the first at once.
C11_RepeatedAttemptsGetFreshNames ==
  \A w1, w2 \in Workers :
    (/\ w1 # w2
     /\ Named(item[w1]) /\ Named(item[w2])
     /\ item[w1].item_name = item[w2].item_name)
    => item[w1].warc_file_base # item[w2].warc_file_base

\* C12: if os.rename in MoveFiles.process fails, the item is marked failed
\* and the filesystem is left as it was, item_dir and all it holds included;
\* and a MoveFiles step deletes item_dir only when it has moved the
\* compressed file into data_dir.
C12_FailedMoveKeepsItemDir ==
  [][\A w \in Workers :
       MoveFiles(w) =>
         /\ event'.note = "rename"
              => /\ disk' = disk
                 /\ item'[w].status = "failed"
                 /\ Last(item'[w].trace) = <<"MoveFiles", "fail">>
         /\ (FsIsDir(disk, item[w].item_dir)
               /\ ~FsIsDir(disk', item[w].item_dir))
              => /\ event'.ok
                 /\ ItemWarcGz(item[w]) \in DOMAIN disk.files
                 /\ DataWarcGz(item[w]) \in DOMAIN disk'.files
                 /\ disk'.files[DataWarcGz(item[w])]
                      = disk.files[ItemWarcGz(item[w])]]_vars

\* os.rename has just failed in MoveFiles, and item_dir is there with the
\* compressed file in it
C12_Witness ==
  \E w \in Workers :
    /\ event.op = "MoveFiles" /\ event.w = w /\ event.note = "rename"
    /\ item[w].status = "failed"
    /\ FsIsDir(disk, item[w].item_dir)
    /\ ItemWarcGz(item[w]) \in DOMAIN disk.files
    /\ disk.files[ItemWarcGz(item[w])] # EmptyContent

\* the capture stage has used up its tries on the item
CaptureExhausted(it) ==
  /\ it.status = "failed"
  /\ Len(it.trace) > 0
  /\ Last(it.trace) = <<"WgetDownload", "fail">>

\* C13: when the capture stage has exhausted its tries, the item is failed
\* for good, MoveFiles has not run and does not run for it, and its working
\* directory item_dir exists.
C13_ExhaustionKeepsItemDir ==
  \A w \in Workers :
    CaptureExhausted(item[w])
    => /\ Invocations(item[w], "MoveFiles") = 0
       /\ FsIsDir(disk, item[w].item_dir)

\* C14: when several workers run CheckIP.process concurrently, the shared
\* counter is never corrupted under any interleaving of their steps: it
\* stays within 0..10, and a decrement is never applied to a stale value
\* (the value a worker is about to write back one less of is the counter's
\* current value).
C14_CounterUpdatedAtomically ==
  /\ counter \in 0..10
  /\ \A w \in Workers : thread[w].pc = "store" => thread[w].loaded = counter

\* s holds neither a '/' nor a ':'
NoSeparators(s) == \A i \in 1..Len(s) : s[i] \notin {"/", ":"}

\* C15: for every item_name the escaped_item_name PrepareDirectories
\* computes holds no '/' and no ':', and the sanitization is deterministic:
\* staging the same item_name again yields the same escaped_item_name.
C15_EscapedNameIsClean ==
  [][\A w \in Workers :
       StageItem(w) =>
         /\ item'[w].escaped_item_name # Unset
         /\ NoSeparators(item'[w].escaped_item_name)
         /\ Len(item'[w].escaped_item_name) = Len(item[w].item_name)
         /\ item[w].escaped_item_name # Unset
              => item'[w].escaped_item_name = item[w].escaped_item_name]_vars

\* an item whose name holds both a ':' and a '/' has been staged a second
\* time
C15_Witness ==
  \E w \in Workers :
    /\ event.op = "PrepareDirectories" /\ event.w = w /\ event.ok
    /\ event.note = "removed"
    /\ \E i, j \in 1..Len(item[w].item_name) :
         item[w].item_name[i] = ":" /\ item[w].item_name[j] = "/"
    /\ NoSeparators(item[w].escaped_item_name)

\* argument list args holds a --warc-header whose value holds string v
HasWarcHeaderWith(args, v) ==
  \E i \in 1..(Len(args) - 1) :
    /\ args[i] = <<"--warc-header">>
    /\ \E k \in 1..Len(args[i + 1]) : args[i + 1][k] = v

\* C16: whenever WgetArgs.realize is called on an item whose item_dir and
\* warc_file_base are set, it returns an argument list whose --warc-file
\* target is item_dir/warc_file_base of the item's fields as they are at
\* that call, and which holds a --warc-header with the VERSION string.
C16_ArgsBuiltFromCurrentItem ==
  \A w \in Workers :
    (event.op = "WgetArgs" /\ event.w = w)
    => /\ event.ok <=> (item[w].item_dir # Unset
                          /\ item[w].warc_file_base # Unset)
       /\ event.ok
            => /\ ArgAfter(wget_args, <<"--warc-file">>)
                    = item[w].item_dir \o <<"/">> \o item[w].warc_file_base
               /\ HasWarcHeaderWith(wget_args, "20150321.01")

\* the list has been built a second time, after the item was staged again
\* at a later second, and differs from the first
C16_Witness ==
  \E w \in Workers :
    /\ event.op = "WgetArgs" /\ event.w = w /\ event.ok
    /\ event.note = "rebuilt"
    /\ now = 1
    /\ ArgAfter(wget_args, <<"--warc-file">>)
         = item[w].item_dir \o <<"/">> \o item[w].warc_file_base

\* the step is an invocation of CheckIP.process
Invoked == Len(guardLog') = Len(guardLog) + 1

\* C17: an invocation of CheckIP.process whose check fails leaves the
\* counter as it was, at a value <= 0, and the invocation that follows a
\* failed check performs the check again.
C17_FailedCheckKeepsCounter ==
  [][Invoked =>
       /\ Last(guardLog') = "check_failed"
            => counter' = counter /\ counter' <= 0
       /\ (Len(guardLog) > 0 /\ Last(guardLog) = "check_failed")
            => Last(guardLog') \in {"check_ok", "check_failed"}]_vars

\* a check has failed twice in a row and succeeded on the invocation after
C17_Witness ==
  \E i \in 1..(Len(guardLog) - 2) :
    /\ guardLog[i] = "check_failed"
    /\ guardLog[i + 1] = "check_failed"
    /\ guardLog[i + 2] = "check_ok"
    /\ i + 2 = Len(guardLog)
    /\ counter = 10

\* C18: with one worker, after any sequence of CheckIP.process invocations,
\* successful or failing, the counter is an integer from 0 to 10.
C18_CounterInRange == counter \in Int /\ 0 <= counter /\ counter <= 10

\* the counter has come down from the interval to 0 in a run in which a
\* check has failed as well
C18_Witness ==
  /\ counter = 0
  /\ Len(guardLog) > 0
  /\ Last(guardLog) = "skip"
  /\ \E i \in 1..Len(guardLog) : guardLog[i] = "check_failed"

\* task t has succeeded for the item
Succeeded(it, t) == \E i \in 1..Len(it.trace) : it.trace[i] = <<t, "ok">>

\* C19: a file appears in data_dir (or gets new content there) only by the
\* MoveFiles step of an item, as that item's artifact
\* data_dir/warc_file_base.warc.gz, and only after that item's capture stage
\* has succeeded and its stats record has been assembled.  (The converse
\* case, an item that ends as failed in the final ExternalProcess with its
\* artifact in data_dir and its item_dir removed, is the witness.)
C19_ArtifactOnlyAfterCaptureAndStats ==
  [][\A p \in DOMAIN disk'.files :
       (/\ IsDataFile(p)
        /\ p \in DOMAIN disk.files => disk'.files[p] # disk.files[p])
       => \E w \in Workers :
            /\ MoveFiles(w)
            /\ p = DataWarcGz(item[w])
            /\ Succeeded(item[w], "WgetDownload")
            /\ Succeeded(item[w], "PrepareStatsForTracker")
            /\ item[w].stats.set]_vars

\* an item has failed in the final ExternalProcess; the capture it made is
\* in data_dir and its item_dir is gone
C19_Witness ==
  \E w \in Workers :
    /\ item[w].status = "failed"
    /\ Last(item[w].trace) = <<"ExternalProcess", "fail">>
    /\ DataWarcGz(item[w]) \in DOMAIN disk.files
    /\ disk.files[DataWarcGz(item[w])] = <<item[w].id>>
    /\ ~FsExists(disk, item[w].item_dir)

====
